---- MODULE Spec2Model ----
(***************************************************************************)
(* Model of the two scripts of the repository:                             *)
(*   cloud02.py  the resumable batch runner (skip-set, Status column,      *)
(*               30-minute checkpoint, cooldown after 18 rotations)        *)
(*   cloud03.py  the simple batch runner (single end-of-run write)         *)
(* Both share GitHubApiHandler: check_and_switch_key, get_remaining_       *)
(* requests, get_user_info_from_github_api, get_email_from_readme.         *)
(*                                                                         *)
(* Three specifications exercise the code. Spec runs main() of the chosen  *)
(* script over the two CSV stores, with the process interrupted and        *)
(* started again. SpecHandler constructs a GitHubApiHandler and calls      *)
(* get_user_info_from_github_api any number of times (main() calls it      *)
(* once per row, so fewer than 18 times within the bounds of Spec).        *)
(* SpecTransport follows one remote call of the handler attempt by attempt.*)
(* SpecHandler also keeps notes of what the quota_checks have shown of each *)
(* credential (low_run, found_low, last_quota); they are no state of the    *)
(* program and the other specifications leave them blank.                   *)
(*                                                                         *)
(* Not modelled: request_count and max_requests_per_key (written, never    *)
(* read), the Username / User ID columns (copied through unchanged; a row  *)
(* carries the position of its input record instead), URL-to-username      *)
(* normalisation (it only selects the URL the remote answers for), a      *)
(* to_csv that raises after it has truncated or partly written its file    *)
(* (a write goes through or raises with the file as it was).               *)
(***************************************************************************)
EXTENDS Integers, Sequences, FiniteSets, TLC

VARIABLES
    driver,             \* "main" | "caller" | "transport": what is being run
    variant,            \* "cloud02" | "cloud03"
    nkeys,              \* len(self.api_keys)
    current_key_index,  \* self.current_key_index
    failed_attempts,    \* self.failed_attempts (cloud02 only; stays 0 in cloud03)
    headers,            \* credential index captured by get_headers() in the lookup, -1 before
    response,           \* the response object most recently received
    email,              \* value returned by get_user_info_from_github_api
    requests,           \* remote calls issued so far within the current lookup
    pc,                 \* control position
    inputStore,         \* the input CSV on disk: rows [url, status]
    outputExists,       \* os.path.exists(output_csv_path)
    outputStore,        \* the output CSV on disk: rows [rec, url, email]
    input_df,           \* main: input_df
    output_df,          \* main: output_df
    processed_profiles, \* main: processed_profiles
    new_rows,           \* main: new_rows (cloud02) / output_data (cloud03)
    index,              \* main: position of the for loop in input_df (1-based)
    elapsed,            \* minutes since last_save_time, saturating above the threshold
    restarts,           \* number of times the process was started again
    startInput,         \* history: the input CSV as this run read it
    startOutput,        \* history: the output CSV as this run read it
    produced,           \* history: the Output Records this run has built, in order
    error_logged,       \* the last per-record logger.error: its row and its exception
    remote,             \* one remote call alone: what the remote answers, attempt by attempt
    tried,              \* one remote call alone: the attempts the client has made of it
    low_run,            \* history: quota_checks in a row that found the quota low (up to 18)
    found_low,          \* history: credentials found low since the last cooldown wait
    last_quota          \* history: per credential, its latest quota result since then

handlerVars == <<nkeys, current_key_index, failed_attempts, headers, response,
                 email, requests>>
storeVars   == <<inputStore, outputExists, outputStore>>
mainVars    == <<input_df, output_df, processed_profiles, new_rows, index>>
histVars    == <<startInput, startOutput, produced, error_logged>>
netVars     == <<remote, tried>>
quotaHist   == <<low_run, found_low, last_quota>>
vars == <<driver, variant, handlerVars, pc, storeVars, mainVars, elapsed, restarts,
          histVars, netVars, quotaHist>>

-----------------------------------------------------------------------------
(* Bounds of the model *)

MaxPool == 2        \* pool sizes 1..MaxPool
MaxRecords == 3     \* input CSVs of 1..MaxRecords rows
MaxRestarts == 1    \* how often an interrupted or finished run is started again
TickMinutes == 30   \* granularity of wall-clock time

(* Program constants *)

LowQuota == 10              \* remaining_requests < 10
MaxFailedAttempts == 18     \* self.failed_attempts >= 18
CooldownMinutes == 65       \* time.sleep(3900)
SaveMinutes == 30           \* timedelta(minutes=30)
Retries == 3                \* requests_retry_session(retries=3, ...)

StatusForcelist == {500, 502, 504}

-----------------------------------------------------------------------------
(* Python values *)

\* Python None. Texts are tuples of one-character strings, so no text equals it.
None == <<"None">>

\* variant of Truthy: only None is falsy
TruthyNotNone(v) == v # None

\* bool(v) of an optional string: None and '' are falsy
Truthy(v) == v # None /\ v # <<>>

Min(a, b) == IF a < b THEN a ELSE b

-----------------------------------------------------------------------------
(* extract_email: the first match of                                        *)
(*   \b[A-Za-z0-9._%+-]+@[A-Za-z0-9.-]+\.[A-Z|a-z]{2,}\b                    *)
(* with the characters "<>[]() stripped from its two ends.                  *)

Letters == {"a", "b", "c", "d", "e", "i", "m", "o", "x", "A", "Z"}
Digits  == {"0", "7"}
WordChars   == Letters \cup Digits \cup {"_"}
LocalChars  == Letters \cup Digits \cup {".", "_", "%", "+", "-"}
DomainChars == Letters \cup Digits \cup {".", "-"}
TldChars    == Letters \cup {"|"}
StripChars  == {"\"", "<", ">", "[", "]", "(", ")"}

\* \b between text[p] and text[p+1] (p in 0..Len(text))
IsWordAt(text, p) == p >= 1 /\ p <= Len(text) /\ text[p] \in WordChars
Boundary(text, p) == IsWordAt(text, p) # IsWordAt(text, p + 1)

AllIn(text, lo, hi, chars) == \A k \in lo..hi : text[k] \in chars

\* a match starting at s, with "@" at a, the pattern's last "." at d, ending at e
IsMatch(text, s, a, d, e) ==
    /\ 1 <= s /\ s < a /\ a + 1 < d /\ d + 2 <= e /\ e <= Len(text)
    /\ Boundary(text, s - 1)
    /\ AllIn(text, s, a - 1, LocalChars)
    /\ text[a] = "@"
    /\ AllIn(text, a + 1, d - 1, DomainChars)
    /\ text[d] = "."
    /\ AllIn(text, d + 1, e, TldChars)
    /\ Boundary(text, e)

\* <<a, d, e>> of every match starting at s
MatchesAt(text, s) ==
    LET n == Len(text)
    IN  UNION {{<<a, d, e>> : e \in {x \in d + 2..n : IsMatch(text, s, a, d, x)}} :
                  <<a, d>> \in {ad \in (s + 1..n) \X (s + 3..n) :
                                   text[ad[1]] = "@" /\ text[ad[2]] = "."}}

\* The quantifiers are greedy: among the matches at s the regex engine returns the
\* one with the longest domain part, then the longest last segment.
GreedyMatch(text, s) ==
    CHOOSE m \in MatchesAt(text, s) :
        \A o \in MatchesAt(text, s) :
            \/ o[2] < m[2]
            \/ o[2] = m[2] /\ o[3] <= m[3]

\* str.strip(chars)
RECURSIVE LStrip(_)
LStrip(t) == IF t # <<>> /\ Head(t) \in StripChars THEN LStrip(Tail(t)) ELSE t
RECURSIVE RStrip(_)
RStrip(t) == IF t # <<>> /\ t[Len(t)] \in StripChars
             THEN RStrip(SubSeq(t, 1, Len(t) - 1)) ELSE t
Strip(t) == RStrip(LStrip(t))

extract_email(text) ==
    LET starts == {s \in 1..Len(text) : MatchesAt(text, s) # {}}
    IN  IF starts = {} THEN None
        ELSE LET s == CHOOSE x \in starts : \A y \in starts : x <= y
                 m == GreedyMatch(text, s)
             IN  Strip(SubSeq(text, s, m[3]))

-----------------------------------------------------------------------------
(* Responses of the remote API *)

Resp(s, rem, em, txt) == [status |-> s, remaining |-> rem, email |-> em, text |-> txt]

NoResponse == Resp(0, 0, None, <<>>)
\* one attempt that ended without a response (connection failure, read timeout)
Failed == Resp(-1, 0, None, <<>>)

Raises(r) == r.status = -1

ErrorStatuses == {401, 403, 404, 429}
\* statuses the README fetch is answered with when it is not 200 (it is not retried)
ReadmeErrors == {404, 500}
RemainingValues == {9, 10}

\* 'email' of the profile JSON as user_data.get('email', '') sees it:
\* null, '' (also when the key is missing) or an address
ProfileEmail == <<"x", "@", "a", ".", "i", "o">>
EmailFields == {None, <<>>, ProfileEmail}

\* README bodies:  ''  |  <a@b.co>  |  m a@b.c x  |  (a@b.co) e@d.io|x
Documents == {
    <<>>,
    <<"<", "a", "@", "b", ".", "c", "o", ">">>,
    <<"m", " ", "a", "@", "b", ".", "c", " ", "x">>,
    <<"(", "a", "@", "b", ".", "c", "o", ")", " ", "e", "@", "d", ".", "i", "o", "|", "x">> }

ErrorResponses(statuses) == {Resp(s, 0, None, <<>>) : s \in statuses}
QuotaResponses   == {Resp(200, r, None, <<>>) : r \in RemainingValues}
ProfileResponses == {Resp(200, 0, e, <<>>) : e \in EmailFields}
ReadmeResponses  == {Resp(200, 0, None, d) : d \in Documents}

\* variant of ExtractedFrom: the README body itself, unextracted
ExtractedFromRaw == [d \in Documents |-> IF d = <<>> THEN None ELSE d]

\* extract_email over the README bodies of the model, evaluated once
ExtractedFrom == [d \in Documents |-> extract_email(d)]

-----------------------------------------------------------------------------
(* requests_retry_session().get: urllib3 Retry(total=3, read=3, connect=3,  *)
(* status_forcelist=(500, 502, 504)) mounted on the session. An attempt     *)
(* that fails or answers with a forcelist status is sent again while        *)
(* retries are left; when none is left the call raises (RetryError /        *)
(* ConnectionError). Any other response is returned as it is.               *)

Transient(r) == Raises(r) \/ r.status \in StatusForcelist

RECURSIVE Send(_, _)
Send(outcomes, retriesLeft) ==
    IF outcomes = <<>> THEN Failed
    ELSE IF Transient(Head(outcomes))
         THEN IF retriesLeft = 0 THEN Failed
              ELSE Send(Tail(outcomes), retriesLeft - 1)
         ELSE Head(outcomes)

retry_session_get(outcomes) == Send(outcomes, Retries)

\* requests.get without a session: one attempt, whatever its status
plain_get(outcome) == outcome

\* the number of attempts requests_retry_session().get makes of a call
RECURSIVE Attempts(_, _)
Attempts(outcomes, retriesLeft) ==
    IF outcomes = <<>> THEN 0
    ELSE IF Transient(Head(outcomes)) /\ retriesLeft > 0
         THEN 1 + Attempts(Tail(outcomes), retriesLeft - 1)
         ELSE 1

\* the three remote calls of the handler and what each is sent through: the quota
\* query (line 66) and the profile query (line 82) through requests_retry_session(),
\* the README fetch (line 92) through requests.get
Endpoints == {"rate_limit", "users", "readme"}

remote_get(endpoint, outcomes) ==
    IF endpoint = "readme" THEN plain_get(Head(outcomes))
    ELSE retry_session_get(outcomes)

attempts_made(endpoint, outcomes) ==
    IF endpoint = "readme" THEN 1 ELSE Attempts(outcomes, Retries)

\* What the remote may do over the attempts of one call: k transient outcomes of
\* one kind, then (if the client still asks) a final answer.
Repeat(x, k) == [i \in 1..k |-> x]
TransientOutcomes == ErrorResponses(StatusForcelist) \cup {Failed}
AttemptRuns(finals) ==
    {Repeat(t, k) \o <<f>> : t \in TransientOutcomes, k \in 0..Retries,
                            f \in finals \cup ErrorResponses(ErrorStatuses)}
    \cup {Repeat(t, Retries + 1) : t \in TransientOutcomes}

-----------------------------------------------------------------------------
(* GitHubApiHandler *)

\* where a lookup returns to / raises to
CallerIdle == pc \in {"idle", "returned", "raised"}

ClearedLocals ==
    /\ headers' = -1
    /\ response' = NoResponse
    /\ email' = None
    /\ requests' = <<>>

Sent(endpoint, key) == Append(requests, [endpoint |-> endpoint, key |-> key])

\* variant of get_headers: the credential the lookup began with
get_headers_stale == IF requests = <<>> THEN current_key_index ELSE requests[1].key

\* get_headers: the Authorization header of the credential at the cursor
get_headers == current_key_index

\* variant of get_remaining_requests: a failed query counts as enough quota
get_remaining_requests_optimistic(r) == IF r.status = 200 THEN r.remaining ELSE LowQuota

\* get_remaining_requests: the value it returns for a response
get_remaining_requests(r) == IF r.status = 200 THEN r.remaining ELSE 0

\* variant of IsLow: 0 is taken for "unknown"
IsLowNonzero(remaining) == 0 < remaining /\ remaining < LowQuota

\* variant of IsLow: the bound itself counts as low
IsLowInclusive(remaining) == remaining <= LowQuota

IsLow(remaining) == remaining < LowQuota

\* variant of NextKey: no wrap-around, the cursor stays on the last key
NextKeyStuck(i) == Min(i + 1, nkeys - 1)

NextKey(i) == (i + 1) % nkeys

\* variant of ThresholdReached: the threshold is the size of the pool
ThresholdIsPoolSize(count) == count >= nkeys

\* variant of ThresholdReached: strictly above the threshold
ThresholdAbove(count) == count > MaxFailedAttempts

ThresholdReached(count) == count >= MaxFailedAttempts

\* variant of Counted: a quota_check that finds enough quota starts the count anew
CountedInARow(remaining, count) == IF IsLow(remaining) THEN count + 1 ELSE 0

\* self.failed_attempts after a quota_check that saw `remaining` (line 56, inside
\* the if of line 53)
Counted(remaining, count) == IF IsLow(remaining) THEN count + 1 ELSE count

\* check_and_switch_key, lines 51-58: the quota query and the rotation
QueryAndRotate ==
    /\ pc = "check"
    /\ \E outcomes \in AttemptRuns(QuotaResponses) :
         LET r == remote_get("rate_limit", outcomes)
             remaining_requests == get_remaining_requests(r)
         IN  /\ response' = r
             /\ requests' = Sent("rate_limit", get_headers)
             /\ IF Raises(r)
                THEN /\ pc' = "raised"
                     /\ UNCHANGED <<current_key_index, failed_attempts>>
                ELSE IF IsLow(remaining_requests)
                THEN /\ current_key_index' = NextKey(current_key_index)
                     /\ failed_attempts' =
                           IF variant = "cloud02"
                           THEN Counted(remaining_requests, failed_attempts)
                           ELSE failed_attempts
                     /\ pc' = IF variant = "cloud02" /\ ThresholdReached(failed_attempts')
                              THEN "cooldown" ELSE "query"
                ELSE /\ pc' = "query"
                     /\ failed_attempts' =
                           IF variant = "cloud02"
                           THEN Counted(remaining_requests, failed_attempts)
                           ELSE failed_attempts
                     /\ UNCHANGED current_key_index
    /\ UNCHANGED <<driver, variant, netVars, nkeys, headers, email, storeVars, mainVars,
                   elapsed, restarts, histVars>>

ElapsedCap == SaveMinutes + 1
After(minutes) == Min(elapsed + minutes, ElapsedCap)

\* check_and_switch_key, lines 59-61: time.sleep(3900); self.failed_attempts = 0
Sleep ==
    /\ pc = "cooldown"
    /\ elapsed' = After(CooldownMinutes)
    /\ failed_attempts' = 0
    /\ pc' = "query"
    /\ UNCHANGED <<driver, variant, netVars, nkeys, current_key_index, headers, response,
                   email, requests, storeVars, mainVars, restarts, histVars>>

\* check_and_switch_key: its next step, the sleep when the method stands there
CheckAndSwitchKey == IF pc = "cooldown" THEN Sleep ELSE QueryAndRotate

\* get_user_info_from_github_api after check_and_switch_key: get_headers, the
\* profile query, and the choice between the structured field and the README
ProfileQuery ==
    /\ pc = "query"
    /\ headers' = get_headers
    /\ requests' = Sent("users", headers')
    /\ \E outcomes \in AttemptRuns(ProfileResponses) :
         LET r == remote_get("users", outcomes)
         IN  /\ response' = r
             /\ IF Raises(r) THEN pc' = "raised" /\ email' = None
                ELSE IF r.status # 200 THEN pc' = "returned" /\ email' = None
                ELSE IF Truthy(r.email) THEN pc' = "returned" /\ email' = r.email
                ELSE pc' = "readme" /\ email' = None
    /\ UNCHANGED <<driver, variant, netVars, nkeys, current_key_index, failed_attempts,
                   storeVars, mainVars, elapsed, restarts, histVars>>

\* get_email_from_readme
GetEmailFromReadme ==
    /\ pc = "readme"
    /\ requests' = Sent("readme", headers)
    /\ \E outcome \in ReadmeResponses \cup ErrorResponses(ReadmeErrors) \cup {Failed} :
         LET r == remote_get("readme", <<outcome>>)
         IN  /\ response' = r
             /\ IF Raises(r) THEN pc' = "raised" /\ email' = None
                ELSE /\ pc' = "returned"
                     /\ email' = IF r.status = 200 THEN ExtractedFrom[r.text] ELSE None
    /\ UNCHANGED <<driver, variant, netVars, nkeys, current_key_index, failed_attempts,
                   headers, storeVars, mainVars, elapsed, restarts, histVars>>

\* What a quota_check has shown of the credentials, noted beside it: the credential
\* asked is the one at the cursor before the step. A quota query that raised has
\* shown nothing but its failure; the end of the cooldown wait starts the notes anew.
NoteQuota ==
    IF pc = "cooldown"
    THEN /\ low_run' = 0
         /\ found_low' = {}
         /\ last_quota' = [k \in 0..nkeys - 1 |-> "none"]
    ELSE LET asked == current_key_index
         IN  IF Raises(response')
             THEN /\ last_quota' = [last_quota EXCEPT ![asked] = "failed"]
                  /\ UNCHANGED <<low_run, found_low>>
             ELSE IF response'.status = 200 /\ response'.remaining >= 10
             THEN /\ last_quota' = [last_quota EXCEPT ![asked] = "enough"]
                  /\ low_run' = 0
                  /\ UNCHANGED found_low
             ELSE /\ last_quota' = [last_quota EXCEPT ![asked] =
                                       IF response'.status = 200 THEN "low" ELSE "failed"]
                  /\ low_run' = Min(low_run + 1, MaxFailedAttempts)
                  /\ found_low' = found_low \cup {asked}

\* a caller of the handler: github_api_handler.get_user_info_from_github_api(...)
Call ==
    /\ driver = "caller"
    /\ CallerIdle
    /\ pc' = "check"
    /\ ClearedLocals
    /\ UNCHANGED <<driver, variant, netVars, quotaHist, nkeys, current_key_index, failed_attempts,
                   storeVars, mainVars, elapsed, restarts, histVars>>

-----------------------------------------------------------------------------
(* The CSV stores *)

Urls == {"u1", "u2"}
Pending == "nan"
Done == "Done"

InputRow(u, st) == [url |-> u, status |-> st]
OutputRow(i, u, e) == [rec |-> i, url |-> u, email |-> e]

\* input CSVs a user may supply: 1..MaxRecords rows, Status column optional per row
InputCSVs ==
    UNION {[1..k -> {InputRow(u, st) : u \in Urls, st \in {Pending, Done}}] :
             k \in 1..MaxRecords}

\* an output CSV left by earlier use (rec 0: the row was not built by a run of
\* this model)
EarlierOutputs == { <<OutputRow(0, "u1", ProfileEmail)>> }

ProfileUrls(rows) == {rows[k].url : k \in 1..Len(rows)}

NoError == [row |-> 0, e |-> ""]

BlankMemory ==
    /\ input_df' = <<>>
    /\ output_df' = <<>>
    /\ processed_profiles' = {}
    /\ new_rows' = <<>>
    /\ index' = 0
    /\ startInput' = <<>>
    /\ startOutput' = <<>>
    /\ produced' = <<>>
    /\ error_logged' = NoError

-----------------------------------------------------------------------------
(* cloud02.main *)

\* main has passed startup and has not ended: "done" is the normal exit (lines 161,
\* 123), "aborted" the outer except (lines 163-164, 125-126), "stopped" a kill
Running == pc \notin {"start", "stopped", "done", "aborted", "idle"}

\* lines 99-118: construct the handler, read the input CSV, build the skip-set.
\* A missing MY_GITHUB_API_KEYS or an unreadable CSV raises into the outer except.
Startup ==
    /\ driver = "main" /\ variant = "cloud02"
    /\ pc = "start"
    /\ \E ok \in BOOLEAN :
         IF ok
         THEN /\ pc' = "loop"
              /\ current_key_index' = 0
              /\ failed_attempts' = 0
              /\ input_df' = inputStore
              /\ output_df' = IF outputExists THEN outputStore ELSE <<>>
              /\ processed_profiles' = IF outputExists THEN ProfileUrls(outputStore) ELSE {}
              /\ new_rows' = <<>>
              /\ index' = 1
              /\ elapsed' = 0
              /\ startInput' = inputStore
              /\ startOutput' = IF outputExists THEN outputStore ELSE <<>>
              /\ produced' = <<>>
              /\ error_logged' = NoError
         ELSE /\ pc' = "aborted"
              /\ UNCHANGED <<current_key_index, failed_attempts, mainVars, elapsed,
                             histVars>>
    /\ ClearedLocals
    /\ UNCHANGED <<driver, variant, netVars, quotaHist, nkeys, storeVars, restarts>>

\* variant of Skips: the skip-set is not consulted
SkipsStatusOnly(row) == row.status = Done

\* line 121. iterrows() yields the rows as they were when the loop began; a row's
\* Status is only ever written at the loop's own position, so that is input_df[index].
Skips(row) == row.status = Done \/ row.url \in processed_profiles

\* lines 119-122: continue
SkipRecord ==
    /\ driver = "main" /\ variant = "cloud02"
    /\ pc = "loop"
    /\ index <= Len(input_df)
    /\ Skips(input_df[index])
    /\ index' = index + 1
    /\ UNCHANGED <<driver, variant, netVars, quotaHist, handlerVars, pc, storeVars, input_df, output_df,
                   processed_profiles, new_rows, elapsed, restarts, histVars>>

\* lines 124-129: enter the try block and call the handler
ProcessRecord ==
    /\ driver = "main" /\ variant = "cloud02"
    /\ pc = "loop"
    /\ index <= Len(input_df)
    /\ ~Skips(input_df[index])
    /\ pc' = "check"
    /\ ClearedLocals
    /\ UNCHANGED <<driver, variant, netVars, quotaHist, nkeys, current_key_index, failed_attempts,
                   storeVars, mainVars, elapsed, restarts, histVars>>

\* variant of MarkDone: the whole Status column is set
MarkDoneColumn(df, i) == [k \in 1..Len(df) |-> [df[k] EXCEPT !.status = Done]]

\* input_df.at[index, 'Status'] = 'Done'
MarkDone(df, i) == [df EXCEPT ![i].status = Done]

SaveDue == elapsed > SaveMinutes

\* lines 130-141: the lookup returned; record the result and test the timer
AfterLookup ==
    /\ driver = "main" /\ variant = "cloud02"
    /\ pc = "returned"
    /\ IF Truthy(email)
       THEN LET row == OutputRow(index, input_df[index].url, email)
            IN  /\ new_rows' = Append(new_rows, row)
                /\ produced' = Append(produced, row)
                /\ processed_profiles' = processed_profiles \cup {row.url}
                /\ input_df' = MarkDone(input_df, index)
       ELSE UNCHANGED <<new_rows, produced, processed_profiles, input_df>>
    /\ IF SaveDue
       THEN pc' = "save" /\ index' = index
       ELSE pc' = "loop" /\ index' = index + 1
    /\ ClearedLocals
    /\ UNCHANGED <<driver, variant, netVars, quotaHist, nkeys, current_key_index, failed_attempts,
                   storeVars, output_df, elapsed, restarts, startInput, startOutput,
                   error_logged>>

\* variant of ExceptRecord: the exception leaves the loop (a try around the loop)
ExceptRecordAborts ==
    /\ driver = "main"
    /\ pc \in {"raised", "raised_io"}
    /\ pc' = "aborted"
    /\ UNCHANGED <<driver, variant, netVars, quotaHist, handlerVars, storeVars, mainVars, elapsed,
                   restarts, histVars>>

\* lines 151-152 (cloud02), 118-119 (cloud03): log the exception and go on with the
\* next row. "raised" is an exception of the lookup, "raised_io" one of to_csv.
ExceptRecord ==
    /\ driver = "main"
    /\ pc \in {"raised", "raised_io"}
    /\ error_logged' = [row |-> index,
                        e |-> IF pc = "raised" THEN "RequestException" ELSE "OSError"]
    /\ pc' = "loop"
    /\ index' = index + 1
    /\ ClearedLocals
    /\ UNCHANGED <<driver, variant, netVars, quotaHist, nkeys, current_key_index, failed_attempts,
                   storeVars, input_df, output_df, processed_profiles, new_rows,
                   elapsed, restarts, startInput, startOutput, produced>>

\* variant of Concat: the new rows alone
ConcatNewOnly(df, rows) == rows

\* pd.concat([output_df, new_df], ignore_index=True)
Concat(df, rows) == df \o rows

\* lines 143-147: append the buffer to output_df and write the output CSV.
\* to_csv may raise (OSError); the per-record except catches it.
SaveOutput ==
    /\ driver = "main" /\ variant = "cloud02"
    /\ pc = "save"
    /\ IF new_rows # <<>>
       THEN /\ output_df' = Concat(output_df, new_rows)
            /\ \E ok \in BOOLEAN :
                 IF ok
                 THEN /\ outputStore' = output_df'
                      /\ outputExists' = TRUE
                      /\ new_rows' = <<>>
                      /\ pc' = "save_in"
                 ELSE /\ pc' = "raised_io"
                      /\ UNCHANGED <<outputStore, outputExists, new_rows>>
       ELSE /\ pc' = "save_in"
            /\ UNCHANGED <<output_df, outputStore, outputExists, new_rows>>
    /\ UNCHANGED <<driver, variant, netVars, quotaHist, handlerVars, inputStore, input_df,
                   processed_profiles, index, elapsed, restarts, histVars>>

\* lines 148-149: overwrite the input CSV, restart the timer
SaveInput ==
    /\ driver = "main" /\ variant = "cloud02"
    /\ pc = "save_in"
    /\ \E ok \in BOOLEAN :
         IF ok
         THEN /\ inputStore' = input_df
              /\ elapsed' = 0
              /\ pc' = "loop"
              /\ index' = index + 1
         ELSE /\ pc' = "raised_io"
              /\ UNCHANGED <<inputStore, elapsed, index>>
    /\ UNCHANGED <<driver, variant, netVars, quotaHist, handlerVars, outputExists, outputStore, input_df,
                   output_df, processed_profiles, new_rows, restarts, histVars>>

\* lines 154-158: the loop is over; a raising to_csv goes to the outer except
FinalSaveOutput ==
    /\ driver = "main" /\ variant = "cloud02"
    /\ pc = "loop"
    /\ index > Len(input_df)
    /\ IF new_rows # <<>>
       THEN /\ output_df' = Concat(output_df, new_rows)
            /\ \E ok \in BOOLEAN :
                 IF ok
                 THEN /\ outputStore' = output_df'
                      /\ outputExists' = TRUE
                      /\ pc' = "final_in"
                 ELSE /\ pc' = "aborted"
                      /\ UNCHANGED <<outputStore, outputExists>>
       ELSE /\ pc' = "final_in"
            /\ UNCHANGED <<output_df, outputStore, outputExists>>
    /\ UNCHANGED <<driver, variant, netVars, quotaHist, handlerVars, inputStore, input_df,
                   processed_profiles, new_rows, index, elapsed, restarts, histVars>>

\* lines 159-161
FinalSaveInput ==
    /\ driver = "main" /\ variant = "cloud02"
    /\ pc = "final_in"
    /\ \E ok \in BOOLEAN :
         IF ok THEN inputStore' = input_df /\ pc' = "done"
         ELSE UNCHANGED inputStore /\ pc' = "aborted"
    /\ UNCHANGED <<driver, variant, netVars, quotaHist, handlerVars, outputExists, outputStore, mainVars,
                   elapsed, restarts, histVars>>

-----------------------------------------------------------------------------
(* cloud03.main *)

\* lines 91-101
Startup03 ==
    /\ driver = "main" /\ variant = "cloud03"
    /\ pc = "start"
    /\ \E ok \in BOOLEAN :
         IF ok
         THEN /\ pc' = "loop"
              /\ current_key_index' = 0
              /\ input_df' = inputStore
              /\ new_rows' = <<>>
              /\ index' = 1
              /\ startInput' = inputStore
              /\ produced' = <<>>
              /\ error_logged' = NoError
         ELSE /\ pc' = "aborted"
              /\ UNCHANGED <<current_key_index, input_df, new_rows, index,
                             startInput, produced, error_logged>>
    /\ ClearedLocals
    /\ UNCHANGED <<driver, variant, netVars, quotaHist, nkeys, failed_attempts, storeVars, output_df,
                   processed_profiles, elapsed, restarts, startOutput>>

\* lines 103-110
ProcessRecord03 ==
    /\ driver = "main" /\ variant = "cloud03"
    /\ pc = "loop"
    /\ index <= Len(input_df)
    /\ pc' = "check"
    /\ ClearedLocals
    /\ UNCHANGED <<driver, variant, netVars, quotaHist, nkeys, current_key_index, failed_attempts,
                   storeVars, mainVars, elapsed, restarts, histVars>>

\* lines 111-117
AfterLookup03 ==
    /\ driver = "main" /\ variant = "cloud03"
    /\ pc = "returned"
    /\ IF Truthy(email)
       THEN LET row == OutputRow(index, input_df[index].url, email)
            IN  /\ new_rows' = Append(new_rows, row)
                /\ produced' = Append(produced, row)
       ELSE UNCHANGED <<new_rows, produced>>
    /\ pc' = "loop"
    /\ index' = index + 1
    /\ ClearedLocals
    /\ UNCHANGED <<driver, variant, netVars, quotaHist, nkeys, current_key_index, failed_attempts,
                   storeVars, input_df, output_df, processed_profiles, elapsed,
                   restarts, startInput, startOutput, error_logged>>

\* lines 121-123: output_df = pd.DataFrame(output_data); output_df.to_csv(...)
FinalWrite03 ==
    /\ driver = "main" /\ variant = "cloud03"
    /\ pc = "loop"
    /\ index > Len(input_df)
    /\ output_df' = new_rows
    /\ \E ok \in BOOLEAN :
         IF ok
         THEN outputStore' = output_df' /\ outputExists' = TRUE /\ pc' = "done"
         ELSE UNCHANGED <<outputStore, outputExists>> /\ pc' = "aborted"
    /\ UNCHANGED <<driver, variant, netVars, quotaHist, handlerVars, inputStore, input_df,
                   processed_profiles, new_rows, index, elapsed, restarts, histVars>>

-----------------------------------------------------------------------------
(* The environment of main: the wall clock, interruption, starting again *)

Tick ==
    /\ driver = "main" /\ variant = "cloud02"
    /\ pc \in {"check", "query", "readme"}
    /\ elapsed < ElapsedCap
    /\ elapsed' = After(TickMinutes)
    /\ UNCHANGED <<driver, variant, netVars, quotaHist, handlerVars, pc, storeVars, mainVars, restarts,
                   histVars>>

\* the process is killed: what is in memory is lost, the stores stay
Interrupt ==
    /\ driver = "main"
    /\ Running
    /\ pc' = "stopped"
    /\ BlankMemory
    /\ ClearedLocals
    /\ current_key_index' = 0
    /\ failed_attempts' = 0
    /\ elapsed' = 0
    /\ UNCHANGED <<driver, variant, netVars, quotaHist, nkeys, storeVars, restarts>>

\* the resumable script is started again on the stores the last run left
Restart ==
    /\ driver = "main" /\ variant = "cloud02"
    /\ pc \in {"stopped", "done", "aborted"}
    /\ restarts < MaxRestarts
    /\ restarts' = restarts + 1
    /\ pc' = "start"
    /\ BlankMemory
    /\ ClearedLocals
    /\ current_key_index' = 0
    /\ failed_attempts' = 0
    /\ elapsed' = 0
    /\ UNCHANGED <<driver, variant, netVars, quotaHist, nkeys, storeVars>>

-----------------------------------------------------------------------------

Blank ==
    /\ current_key_index = 0
    /\ failed_attempts = 0
    /\ headers = -1
    /\ response = NoResponse
    /\ email = None
    /\ requests = <<>>
    /\ input_df = <<>>
    /\ output_df = <<>>
    /\ processed_profiles = {}
    /\ new_rows = <<>>
    /\ index = 0
    /\ elapsed = 0
    /\ restarts = 0
    /\ startInput = <<>>
    /\ startOutput = <<>>
    /\ produced = <<>>
    /\ error_logged = NoError
    /\ tried = <<>>
    /\ low_run = 0
    /\ found_low = {}
    /\ last_quota = [k \in 0..nkeys - 1 |-> "none"]

\* python cloud02.py / python cloud03.py: the process is about to run main()
Init ==
    /\ driver = "main"
    /\ variant \in {"cloud02", "cloud03"}
    /\ nkeys = MaxPool
    /\ pc = "start"
    /\ remote = <<>>
    /\ inputStore \in InputCSVs
    \* input3.csv carries no Status column
    /\ variant = "cloud03" => \A k \in 1..Len(inputStore) : inputStore[k].status = Pending
    /\ \/ outputExists = FALSE /\ outputStore = <<>>
       \/ outputExists = TRUE /\ outputStore \in EarlierOutputs
    /\ Blank

Next ==
    \/ Startup
    \/ SkipRecord
    \/ ProcessRecord
    \/ CheckAndSwitchKey /\ UNCHANGED quotaHist
    \/ ProfileQuery /\ UNCHANGED quotaHist
    \/ GetEmailFromReadme /\ UNCHANGED quotaHist
    \/ AfterLookup
    \/ ExceptRecord
    \/ SaveOutput
    \/ SaveInput
    \/ FinalSaveOutput
    \/ FinalSaveInput
    \/ Startup03
    \/ ProcessRecord03
    \/ AfterLookup03
    \/ FinalWrite03
    \/ Tick
    \/ Interrupt
    \/ Restart

\* main() of either script, interrupted and started again
Spec == Init /\ [][Next]_vars

\* GitHubApiHandler(api_keys) has been constructed; nothing has been called yet
InitHandler ==
    /\ driver = "caller"
    /\ variant \in {"cloud02", "cloud03"}
    /\ nkeys \in 1..MaxPool
    /\ pc = "idle"
    /\ remote = <<>>
    /\ inputStore = <<>> /\ outputExists = FALSE /\ outputStore = <<>>
    /\ Blank

NextHandler ==
    \/ Call
    \/ CheckAndSwitchKey /\ NoteQuota
    \/ ProfileQuery /\ UNCHANGED quotaHist
    \/ GetEmailFromReadme /\ UNCHANGED quotaHist

\* a handler on which get_user_info_from_github_api is called any number of times
SpecHandler == InitHandler /\ [][NextHandler]_vars

\* the position of the handler at which each remote call is made
CallSite(endpoint) ==
    CASE endpoint = "rate_limit" -> "check"
      [] endpoint = "users" -> "query"
      [] endpoint = "readme" -> "readme"

\* the 200 answers of each endpoint
AnswersOf(endpoint) ==
    CASE endpoint = "rate_limit" -> QuotaResponses
      [] endpoint = "users" -> ProfileResponses
      [] endpoint = "readme" -> ReadmeResponses

\* the handler stands before one of its remote calls; `remote` is what the remote
\* will answer to the first, second, ... attempt of that call
InitTransport ==
    /\ driver = "transport"
    /\ variant \in {"cloud02", "cloud03"}
    /\ nkeys = 1
    /\ \E endpoint \in Endpoints :
          /\ pc = CallSite(endpoint)
          /\ remote \in AttemptRuns(AnswersOf(endpoint))
    /\ inputStore = <<>> /\ outputExists = FALSE /\ outputStore = <<>>
    /\ Blank

\* lines 66, 82, 92: the call is made; `tried` keeps the attempts it took
RemoteCall ==
    /\ driver = "transport"
    /\ \E endpoint \in Endpoints :
          /\ pc = CallSite(endpoint)
          /\ response' = remote_get(endpoint, remote)
          /\ tried' = SubSeq(remote, 1, attempts_made(endpoint, remote))
          /\ requests' = Sent(endpoint, current_key_index)
    /\ pc' = IF Raises(response') THEN "raised" ELSE "returned"
    /\ UNCHANGED <<driver, variant, nkeys, current_key_index, failed_attempts, headers,
                   email, storeVars, mainVars, elapsed, restarts, histVars, remote,
                   quotaHist>>

NextTransport == RemoteCall

\* one remote call of the handler, for every call site and every run of answers
SpecTransport == InitTransport /\ [][NextTransport]_vars

-----------------------------------------------------------------------------
(* Properties of the Credential Rotator and of Directory Lookup *)

\* this step sent a request to `endpoint` and an HTTP response came back
Received(endpoint) ==
    /\ Len(requests') = Len(requests) + 1
    /\ requests'[Len(requests')].endpoint = endpoint
    /\ response'.status > 0

\* this step is check_and_switch_key's quota query coming back with a response
QuotaAnswered == pc = "check" /\ Received("rate_limit")

Rotated ==
    /\ current_key_index' = (current_key_index + 1) % nkeys
    /\ variant = "cloud02" => failed_attempts' = failed_attempts + 1

C2_CooldownBeforeLookup ==
    /\ [](pc \in {"query", "readme", "returned"} => failed_attempts < 18)
    /\ [](pc = "cooldown" <=> failed_attempts >= 18)
    /\ [](pc = "cooldown" => /\ variant = "cloud02"
                             /\ \A k \in 1..Len(requests) :
                                   requests[k].endpoint = "rate_limit")
    /\ [][pc = "cooldown" => /\ pc' = "query"
                             /\ failed_attempts' = 0
                             /\ elapsed' > 30
                             /\ requests' = requests]_vars

\* the wait is over, the counter is back at 0 and the lookup has not been sent yet
C2_Witness ==
    /\ driver = "caller" /\ pc = "query"
    /\ failed_attempts = 0 /\ elapsed > 30
    /\ response.status = 200 /\ response.remaining < 10
    /\ Len(requests) = 1

\* C3: a non-200 response to the quota query is treated as remaining = 0: the cursor
\* advances and the counter is incremented as for a reported remaining < 10, and
\* quota_check goes on (to the cooldown or the lookup) without raising.
C3_FailedQuotaQueryRotates ==
    [][(QuotaAnswered /\ response'.status # 200) =>
          Rotated /\ pc' \in {"query", "cooldown"}]_vars

C3_Witness ==
    /\ pc = "query" /\ nkeys = 2
    /\ response.status = 404
    /\ current_key_index = 1
    /\ variant = "cloud02" /\ failed_attempts = 1

AuthErrors == {401, 403, 429}

ReadmeFetches == Cardinality({k \in 1..Len(requests) : requests[k].endpoint = "readme"})

\* C5: within one resolve the README is fetched if and only if the profile query
\* answered 200 with an empty or absent email: no fetch is pending or sent after a
\* non-200 answer or a non-empty email, and one is sent after 200 with no email.
C5_ReadmeFetchedIffNoStructuredEmail ==
    /\ [](ReadmeFetches <= 1)
    /\ [](pc = "readme" => ReadmeFetches = 0)
    /\ [][ /\ Received("users") =>
                (pc' = "readme" <=>
                   (response'.status = 200 /\ response'.email \in {None, <<>>}))
           /\ Received("users") /\ pc' # "readme" =>
                pc' = "returned" /\ ReadmeFetches' = 0
           /\ ReadmeFetches' > ReadmeFetches => pc = "readme"
           /\ (pc = "readme" /\ pc' \in {"returned", "raised"}) =>
                ReadmeFetches' = 1 ]_vars

\* resolved from the structured field: two requests, none of them for the README
C5_Witness ==
    /\ pc = "returned"
    /\ response.status = 200 /\ response.email = ProfileEmail
    /\ email = ProfileEmail
    /\ Len(requests) = 2 /\ ReadmeFetches = 0

\* C6: resolve returns None when the profile query is not 200, the structured email
\* when it is non-empty, and otherwise goes on to the README, returning
\* extract_email of its body when that fetch is 200 and None when it is not (or when
\* the body holds no address); no answer of the remote makes it raise.
C6_ResolveResult ==
    [][ /\ Received("users") =>
             IF response'.status # 200 THEN pc' = "returned" /\ email' = None
             ELSE IF response'.email \notin {None, <<>>}
                  THEN pc' = "returned" /\ email' = response'.email
                  ELSE pc' = "readme"
        /\ Received("readme") =>
             /\ pc' = "returned"
             /\ email' = IF response'.status = 200
                         THEN extract_email(response'.text) ELSE None ]_vars

\* the address was cut out of a README that holds more than the address
C6_Witness ==
    /\ pc = "returned" /\ Len(requests) = 3
    /\ response.status = 200
    /\ email = <<"a", "@", "b", ".", "c", "o">>
    /\ response.text # email

EndpointsOf(log) == [k \in 1..Len(log) |-> log[k].endpoint]

IsPrefix(a, b) == Len(a) <= Len(b) /\ a = SubSeq(b, 1, Len(a))

\* C14: the remote calls of one resolve are, in this order, one quota query, then
\* the profile query, then (if made) the README fetch: nothing is queried before
\* the quota_check and there is no second quota_check. The cursor moves only in the
\* quota_check, and the profile query and the README fetch both carry the
\* credential the cursor is at once the quota_check has returned.
C14_OneQuotaCheckBeforeQueries ==
    /\ [](IsPrefix(EndpointsOf(requests), <<"rate_limit", "users", "readme">>))
    /\ [](pc \in {"query", "cooldown"} => Len(requests) = 1)
    /\ [](pc = "readme" => Len(requests) = 2)
    /\ [](pc = "returned" => Len(requests) \in {2, 3})
    /\ [](\A k \in 2..Len(requests) : requests[k].key = current_key_index)
    /\ [][current_key_index' # current_key_index => pc = "check"]_vars

\* the quota_check rotated from key 0 to key 1, and the profile query and the README
\* fetch that followed both went out with key 1
C14_Witness ==
    /\ pc = "returned" /\ nkeys = 2
    /\ EndpointsOf(requests) = <<"rate_limit", "users", "readme">>
    /\ requests[1].key = 0 /\ requests[2].key = 1 /\ requests[3].key = 1

\* this step is a quota_check of cloud02 that found remaining >= 10
FoundEnough ==
    /\ variant = "cloud02" /\ QuotaAnswered
    /\ response'.status = 200 /\ response'.remaining >= 10

\* C16: failed_attempts counts the low-quota detections in a row: a quota_check
\* that finds remaining >= 10 sets the count back to 0, and the cooldown wait is
\* entered only with the count at 18.
C16_CounterCountsConsecutive ==
    /\ [](pc = "cooldown" => failed_attempts >= 18)
    /\ [][FoundEnough => failed_attempts' = 0]_vars

\* C16 amended: failed_attempts counts the low-quota detections since the last
\* cooldown wait (or since the handler was made), in a row or not: a quota_check
\* that finds remaining >= 10 leaves the count as it is and goes on to the lookup,
\* the count goes down only when a cooldown wait ends, and the wait is entered only
\* with the count at 18.
C16_CounterCountsSinceCooldown ==
    /\ [](pc = "cooldown" => failed_attempts = 18)
    /\ [][FoundEnough => (failed_attempts' = failed_attempts /\ pc' = "query")]_vars
    /\ [][failed_attempts' < failed_attempts =>
            (pc = "cooldown" /\ failed_attempts' = 0)]_vars

\* a quota_check found enough quota after 17 low detections and the count is still 17
C16_Witness ==
    /\ variant = "cloud02" /\ pc = "query" /\ Len(requests) = 1
    /\ response.status = 200 /\ response.remaining >= 10
    /\ failed_attempts = 17

Pool == 0..nkeys - 1

\* C17 as claimed: for every pool size, once every credential of the pool has been
\* found low in succession (as many low quota_checks in a row as there are
\* credentials) cloud02 waits before it issues a lookup, and it enters the wait only
\* when every credential has been found low since the last wait (or since start).
C17_CooldownIffPoolExhausted ==
    /\ (variant = "cloud02" /\ pc \in {"query", "readme"}) => low_run < nkeys
    /\ pc = "cooldown" => found_low = Pool

\* C17 amended: the wait does not depend on the pool size. It is entered with the
\* count of low detections since the last wait at 18 and not before, so a pool of
\* fewer than 18 credentials is found low in succession several times over, lookups
\* going out meanwhile; the credentials found low since the last wait are
\* min(count, pool size) many, so that at the wait (pool of at most 18) they are all.
C17_CooldownAtEighteenDetections ==
    /\ pc = "cooldown" => (failed_attempts = 18 /\ found_low = Pool)
    /\ variant = "cloud02" =>
          /\ Cardinality(found_low) = Min(failed_attempts, nkeys)
          /\ low_run <= failed_attempts
          /\ pc \in {"query", "readme"} => failed_attempts < 18

\* both credentials of a pool of two have just been found low, one after the other,
\* and the lookup is about to go out without a wait
C17_Witness ==
    /\ variant = "cloud02" /\ pc = "query" /\ nkeys = 2
    /\ low_run = 2 /\ found_low = {0, 1}
    /\ failed_attempts = 2

\* C19 as claimed: no profile query goes out with a credential whose own latest
\* quota query (since the last cooldown wait) reported remaining < 10 or failed.
C19_NoQueryWithLowCredential ==
    \A k \in 1..Len(requests) :
        requests[k].endpoint = "users" =>
            last_quota[requests[k].key] \notin {"low", "failed"}

\* C19 amended: the profile query goes out with the credential the quota_check of
\* the same resolve asked about if that one was found to have remaining >= 10, and
\* otherwise with its successor in the pool, whose own quota is not asked: in a
\* pool of two or more this is never the credential just found low or failed, but
\* it may be one whose own latest quota query said so; in a pool of one it is the
\* very credential just found low.
C19_QueryWithCheckedOrNextCredential ==
    [][pc = "query" =>
          LET asked == requests[1].key
              sent == requests'[2].key
          IN  /\ last_quota[asked] = "enough" => sent = asked
              /\ last_quota[asked] # "enough" => sent = (asked + 1) % nkeys
              /\ (nkeys >= 2 /\ last_quota[asked] \in {"low", "failed"}) => sent # asked
              /\ (nkeys = 1 /\ last_quota[asked] \in {"low", "failed"}) => sent = asked
      ]_vars

\* the quota_check found credential 1 low and rotated onto credential 0, which an
\* earlier quota_check had found low: the profile query went out with credential 0
C19_Witness ==
    /\ nkeys = 2 /\ pc = "returned"
    /\ requests[1].key = 1 /\ requests[2].endpoint = "users" /\ requests[2].key = 0
    /\ last_quota[0] = "low" /\ last_quota[1] = "low"

-----------------------------------------------------------------------------
(* Properties of the Batch Runner *)

Resumable == driver = "main" /\ variant = "cloud02"

\* the for loop of main stands before row `index` (and the process is not killed now)
AtRecord == driver = "main" /\ pc = "loop" /\ index <= Len(input_df) /\ pc' # "stopped"

\* the output set: what the output CSV held at startup plus what this run has added
InOutputSet(u) == u \in ProfileUrls(startOutput) \cup ProfileUrls(produced)

AlreadyResolved(row) == row.status = Done \/ InOutputSet(row.url)

RowsFor(rows, u) == Cardinality({k \in 1..Len(rows) : rows[k].url = u})

\* C7: in cloud02 a row whose Status is Done, or whose profile URL is in the output
\* set, is passed over: no request is sent, no Output Record is built, nothing is
\* stored. So a run adds no row for a profile the output CSV held when it started
\* (a second run adds none for what the first run stored), and builds no row for an
\* input row that was Done at startup.
C7_SkipsResolvedRecords ==
    /\ [][(Resumable /\ AtRecord /\ AlreadyResolved(input_df[index])) =>
            /\ pc' = "loop" /\ index' = index + 1
            /\ requests' = <<>>
            /\ UNCHANGED <<new_rows, produced, input_df, output_df, storeVars>>]_vars
    /\ [](Resumable /\ Running =>
            /\ \A u \in ProfileUrls(startOutput) :
                  RowsFor(outputStore, u) = RowsFor(startOutput, u)
            /\ \A j \in 1..Len(produced) :
                  /\ startInput[produced[j].rec].status # Done
                  /\ produced[j].url \notin ProfileUrls(startOutput))

\* a second run passed over row 1: its Status was never stored, but the first run's
\* Output Record for it was
C7_Witness ==
    /\ Resumable /\ restarts = 1
    /\ pc = "loop" /\ index = 2
    /\ input_df[1].status = Pending
    /\ \E k \in 1..Len(startOutput) :
          startOutput[k].rec = 1 /\ startOutput[k].url = input_df[1].url
    /\ produced = <<>> /\ error_logged = NoError

\* C8: the output CSV of cloud02 never holds two rows with the same profile URL.
C8_NoDuplicateProfiles ==
    Resumable =>
        \A i, j \in 1..Len(outputStore) :
            i # j => outputStore[i].url # outputStore[j].url

Eligible(row) == variant = "cloud03" \/ ~AlreadyResolved(row)

Stored(rows) == \A j \in 1..Len(rows) : \E k \in 1..Len(outputStore) : outputStore[k] = rows[j]

\* C9: an exception caught for row N does not end the batch: the loop moves to row
\* N+1 with everything built so far kept, every later eligible row is handed to the
\* lookup, and once the final flush has written, every Output Record of the run
\* (from rows before and after N) is in the output CSV.
C9_ErrorDoesNotAbort ==
    /\ [][(driver = "main" /\ pc \in {"raised", "raised_io"} /\ pc' # "stopped") =>
            /\ pc' = "loop" /\ index' = index + 1
            /\ UNCHANGED <<new_rows, produced, input_df, processed_profiles,
                           storeVars>>]_vars
    /\ [][(AtRecord /\ Eligible(input_df[index])) =>
            pc' = "check" /\ index' = index]_vars
    /\ [](Resumable /\ pc \in {"final_in", "done"} => Stored(produced))
    /\ [](driver = "main" /\ variant = "cloud03" /\ pc = "done" =>
            outputStore = produced)

\* cloud02 finished a run of three rows in which the lookup of row 2 raised and
\* rows 1 and 3 were resolved and stored
C9_Witness ==
    /\ Resumable /\ pc = "done" /\ restarts = 0
    /\ Len(input_df) = 3
    /\ error_logged = [row |-> 2, e |-> "RequestException"]
    /\ Len(produced) = 2 /\ produced[1].rec = 1 /\ produced[2].rec = 3
    /\ outputStore = startOutput \o produced

DoneRows(df) == {k \in 1..Len(df) : df[k].status = Done}

\* C10: when a checkpoint of cloud02 completes, the output CSV holds exactly the rows
\* it held at startup followed by every Output Record built in the run so far, the
\* buffer is empty, and the input CSV marks Done exactly the rows that were Done at
\* startup or have been resolved so far.
C10_CheckpointExact ==
    [][(Resumable /\ pc = "save_in" /\ pc' = "loop") =>
          /\ outputStore' = startOutput \o produced
          /\ new_rows' = <<>>
          /\ Len(inputStore') = Len(startInput)
          /\ DoneRows(inputStore') =
                DoneRows(startInput) \cup {produced[j].rec : j \in 1..Len(produced)}]_vars

\* main of cloud02 got past startup and has returned
RunEnded == Resumable /\ index > 0 /\ pc \in {"done", "aborted"}

\* C11: a run of cloud02 that got past startup ends only after the loop has gone
\* over every input row, and when it has ended every Output Record built in the run
\* is in the output CSV and the input CSV holds the statuses of input_df, whether or
\* not rows raised during the loop.
C11_FinalFlushPersistsAll ==
    RunEnded =>
        /\ index > Len(input_df)
        /\ Stored(produced)
        /\ inputStore = input_df

\* the lookup of the row at `index` has ended, by returning or by raising
LookupEnded == Resumable /\ pc \in {"returned", "raised"} /\ pc' # "stopped"

\* C13: when the lookup of an eligible row of cloud02 has ended, however it ended,
\* and more than 30 minutes have passed since the last checkpoint, the next thing
\* main does is the checkpoint, before it moves to another row; and a checkpoint
\* that goes through has written new_rows to the output CSV and input_df to the
\* input CSV, emptied new_rows and restarted the timer.
C13_CheckpointWhenDue ==
    /\ [][(LookupEnded /\ elapsed > 30) => (pc' = "save" /\ index' = index)]_vars
    /\ [][(Resumable /\ pc = "save_in" /\ pc' = "loop") =>
            /\ Stored(produced)
            /\ inputStore' = input_df
            /\ new_rows' = <<>>
            /\ elapsed' = 0]_vars

\* a step of a run of cloud02 that is neither its startup nor its being killed
RunStep == Resumable /\ Running /\ pc' # "stopped"

BecomesDone(i) == input_df[i].status # Done /\ input_df'[i].status = Done

\* C15: within a run of cloud02 the Status of row i goes from pending to Done
\* exactly in the step that takes up a returned lookup of row i whose email is not
\* None; that step appends one Output Record of row i to new_rows and adds its URL
\* to processed_profiles. No Status ever changes otherwise, and the step that takes
\* up a lookup that returned None or raised leaves input_df, new_rows and
\* processed_profiles as they are.
C15_DoneIffEmailReturned ==
    [][RunStep =>
        /\ Len(input_df') = Len(input_df)
        /\ \A i \in 1..Len(input_df) :
              /\ BecomesDone(i) <=> (pc = "returned" /\ index = i /\ email # None)
              /\ BecomesDone(i) =>
                    /\ new_rows' = Append(new_rows, OutputRow(i, input_df[i].url, email))
                    /\ processed_profiles' = processed_profiles \cup {input_df[i].url}
                    /\ \A j \in 1..Len(input_df) \ {i} : input_df'[j] = input_df[j]
              /\ input_df[i].status = Done => input_df'[i].status = Done
        /\ ((pc = "returned" /\ email = None) \/ pc = "raised") =>
              UNCHANGED <<input_df, new_rows, processed_profiles>>]_vars

\* row 1 was looked up without a result and is still pending; row 2 was resolved:
\* it is Done, its Output Record is the one row of the buffer, its URL is skipped
C15_Witness ==
    /\ Resumable /\ pc = "loop" /\ index = 3 /\ restarts = 0
    /\ startInput[1].status = Pending /\ input_df[1].status = Pending
    /\ input_df[1].url \notin processed_profiles
    /\ error_logged = NoError
    /\ startInput[2].status = Pending /\ input_df[2].status = Done
    /\ Len(new_rows) = 1 /\ new_rows[1].rec = 2 /\ new_rows[1].url = input_df[2].url
    /\ input_df[2].url \in processed_profiles

\* a first run of either script over an input whose profile URLs are pairwise
\* distinct and all pending, with no output CSV to begin with
FreshRun ==
    /\ driver = "main" /\ restarts = 0 /\ Running
    /\ startOutput = <<>>
    /\ \A i \in 1..Len(startInput) :
          /\ startInput[i].status = Pending
          /\ \A j \in 1..Len(startInput) : i # j => startInput[i].url # startInput[j].url

\* the Output Records that follow from the lookup result now at hand
WithOutcome(rows) ==
    IF pc = "returned" /\ email # None
    THEN Append(rows, OutputRow(index, input_df[index].url, email))
    ELSE rows

\* C18: on such an input cloud03 and cloud02 do the same with the same lookup
\* outcomes: both hand every row to the lookup, in the order of the input; both add
\* to the Output Records of the run the row of each lookup that returns an email
\* and nothing else; and both end with exactly these Output Records, in this order,
\* in the output CSV.
C18_VariantsAgree ==
    /\ [][(FreshRun /\ AtRecord) => (pc' = "check" /\ index' = index)]_vars
    /\ [][(FreshRun /\ pc' # "stopped") =>
            /\ index' \in {index, index + 1}
            /\ produced' = WithOutcome(produced)]_vars
    /\ [][(FreshRun /\ pc' = "done") => outputStore' = produced]_vars

\* every row the input CSV marks Done has a row with its URL in the output CSV
StoresConsistent ==
    \A k \in 1..Len(inputStore) :
        inputStore[k].status = Done => inputStore[k].url \in ProfileUrls(outputStore)

\* the same of the two CSVs as the run at hand read them
ConsistentAtStart ==
    \A k \in 1..Len(startInput) :
        startInput[k].status = Done => startInput[k].url \in ProfileUrls(startOutput)

Holds(rows, r) == \E k \in 1..Len(rows) : rows[k] = r

-----------------------------------------------------------------------------
(* Properties of Resilient Transport *)

CallMade == driver = "transport" /\ pc \in {"returned", "raised"}

\* C12: on each of the three remote calls (quota query, profile query, README
\* fetch) an attempt answered 500, 502 or 504 is sent again while the budget of 3
\* retries lasts, so such an answer ends the call only as its 4th attempt; an
\* attempt answered otherwise (401, 403, 404, 200, ...) ends the call and is what
\* the call returns, so a call whose first answer is one of these took one attempt.
C12_TransientRetriedOnEveryCall ==
    CallMade =>
        LET n == Len(tried)
        IN  /\ n >= 1 /\ n <= Retries + 1
            /\ tried = SubSeq(remote, 1, n)
            /\ \A k \in 1..n - 1 : Transient(tried[k])
            /\ tried[n].status \in {500, 502, 504} => n = Retries + 1
            /\ ~Transient(tried[n]) => response = tried[n]

====
